---- MODULE Spec2Model ----
(***************************************************************************)
(* Server configuration of the OPC UA server: the ServerEndpoint and       *)
(* ServerConfig values of server/src/config.rs, their constructors, their  *)
(* validation (is_valid, with the diagnostics it logs) and their YAML      *)
(* persistence (save / load) against one file path.                        *)
(***************************************************************************)
EXTENDS Integers, Sequences, FiniteSets, TLC

VARIABLES
    ep,        \* the ServerEndpoint value held by the caller
    cfg,       \* the ServerConfig value held by the caller
    file,      \* what is stored at the path given to save / load
    ret,       \* the outcome of the most recent operation
    log,       \* the diagnostics (error! calls) of the most recent operation
    expected,  \* history: what load returned for the file before any save, then the last valid configuration saved
    clean,     \* history: no File::create / write_all failure has happened so far
    saved      \* history: at least one save has succeeded

vars == <<ep, cfg, file, ret, log, expected, clean, saved>>

(***************************************************************************)
(* Bounds of the model.                                                    *)
(***************************************************************************)
MaxEndpoints == 2

(***************************************************************************)
(* Option<T>: None is the empty sequence, Some(x) the one-element one.     *)
(***************************************************************************)
None == <<>>
Some(x) == <<x>>
is_some(o) == o # None
is_none(o) == o = None
unwrap(o) == o[1]

(***************************************************************************)
(* Constants of config.rs.                                                 *)
(***************************************************************************)
DEFAULT_ENDPOINT_NAME == "Default"
DEFAULT_ENDPOINT_PATH == "/"

SECURITY_POLICY_NONE == "None"
SECURITY_POLICY_BASIC_128_RSA_15 == "Basic128Rsa15"
SECURITY_POLICY_BASIC_256 == "Basic256"
SECURITY_POLICY_BASIC_256_SHA_256 == "Basic256Sha256"
DEFAULT_SECURITY_POLICY == SECURITY_POLICY_NONE

SECURITY_MODE_NONE == "None"
SECURITY_MODE_SIGN == "Sign"
SECURITY_MODE_SIGN_AND_ENCRYPT == "SignAndEncrypt"
DEFAULT_SECURITY_MODE == SECURITY_MODE_NONE

(***************************************************************************)
(* Byte slices (&[u8]): either the UTF-8 encoding of a text, or bytes that *)
(* are no valid UTF-8.                                                     *)
(***************************************************************************)
as_bytes(s) == [utf8 |-> TRUE, text |-> s]
InvalidUtf8 == [utf8 |-> FALSE, text |-> ""]
\* String::from_utf8(bytes): Some(text) for Ok(text), None for Err
String_from_utf8(b) == IF b.utf8 THEN Some(b.text) ELSE None

(***************************************************************************)
(* ServerEndpoint                                                          *)
(***************************************************************************)
\* struct ServerEndpoint { .. }: all fields are pub
Endpoint(name, path, policy, mode, anonymous, user, pass) ==
    [name |-> name, path |-> path, security_policy |-> policy,
     security_mode |-> mode, anonymous |-> anonymous, user |-> user, pass |-> pass]

\* ServerEndpoint::new panics in String::from_utf8(..).unwrap() when the user is
\* non-empty and the password bytes are no UTF-8
ServerEndpoint_new_panics(user, pass) ==
    user # "" /\ is_none(String_from_utf8(pass))

\* A plausible slip: the password is kept whatever the user is.
ServerEndpoint_new_KeepsPass(name, path, anonymous, user, pass, security_policy, security_mode) ==
    [name |-> name,
     path |-> path,
     anonymous |-> Some(anonymous),
     user |-> IF user = "" THEN None ELSE Some(user),
     pass |-> String_from_utf8(pass),
     security_policy |-> security_policy,
     security_mode |-> security_mode]

ServerEndpoint_new(name, path, anonymous, user, pass, security_policy, security_mode) ==
    [name |-> name,
     path |-> path,
     anonymous |-> Some(anonymous),
     user |-> IF user = "" THEN None ELSE Some(user),
     pass |-> IF user = "" THEN None ELSE Some(unwrap(String_from_utf8(pass))),
     security_policy |-> security_policy,
     security_mode |-> security_mode]

ServerEndpoint_new_default(anonymous, user, pass, security_policy, security_mode) ==
    ServerEndpoint_new(DEFAULT_ENDPOINT_NAME, DEFAULT_ENDPOINT_PATH, anonymous, user, pass,
                       security_policy, security_mode)

\* A plausible slip: the anonymous preset built with anonymous = false.
ServerEndpoint_default_anonymous_NotAnonymous ==
    ServerEndpoint_new_default(FALSE, "", as_bytes(""), DEFAULT_SECURITY_POLICY, DEFAULT_SECURITY_MODE)

ServerEndpoint_default_anonymous ==
    ServerEndpoint_new_default(TRUE, "", as_bytes(""), DEFAULT_SECURITY_POLICY, DEFAULT_SECURITY_MODE)

ServerEndpoint_default_user_pass(user, pass) ==
    ServerEndpoint_new_default(FALSE, user, pass, DEFAULT_SECURITY_POLICY, DEFAULT_SECURITY_MODE)

ServerEndpoint_default_sample ==
    ServerEndpoint_new_default(TRUE, "sample", as_bytes("sample1"), DEFAULT_SECURITY_POLICY, DEFAULT_SECURITY_MODE)

\* One error! call of ServerEndpoint::is_valid: the rule violated and the endpoint's name
Diag(rule, name) == [rule |-> rule, name |-> name]

\* The five checks of ServerEndpoint::is_valid, in the order of the code; each is
\* TRUE when the code enters the branch that logs and clears `valid`.
UserPassMismatch(e) ==
    (is_some(e.user) /\ is_none(e.pass)) \/ (is_none(e.user) /\ is_some(e.pass))

PolicyUnknown(e) ==
    e.security_policy \notin {SECURITY_POLICY_NONE, SECURITY_POLICY_BASIC_128_RSA_15,
                              SECURITY_POLICY_BASIC_256, SECURITY_POLICY_BASIC_256_SHA_256}

ModeUnknown(e) ==
    e.security_mode \notin {SECURITY_MODE_NONE, SECURITY_MODE_SIGN, SECURITY_MODE_SIGN_AND_ENCRYPT}

PolicyModeMismatch(e) ==
    \/ (e.security_policy = SECURITY_POLICY_NONE /\ e.security_mode # SECURITY_MODE_NONE)
    \/ (e.security_policy # SECURITY_POLICY_NONE /\ e.security_mode = SECURITY_MODE_NONE)

AnonymousNotSet(e) ==
    /\ e.security_policy = SECURITY_POLICY_NONE
    /\ e.security_mode = SECURITY_MODE_NONE
    /\ (is_none(e.anonymous) \/ ~unwrap(e.anonymous))

\* A plausible slip: an absent anonymous flag is taken for "allowed".
ServerEndpoint_is_valid_AbsentAnonymousOk(e) ==
    LET v1 == [valid |-> ~UserPassMismatch(e),
               log |-> IF UserPassMismatch(e) THEN <<Diag("user_pass", e.name)>> ELSE <<>>]
        v2 == IF PolicyUnknown(e)
              THEN [valid |-> FALSE, log |-> Append(v1.log, Diag("security_policy", e.name))] ELSE v1
        v3 == IF ModeUnknown(e)
              THEN [valid |-> FALSE, log |-> Append(v2.log, Diag("security_mode", e.name))] ELSE v2
        v4 == IF PolicyModeMismatch(e)
              THEN [valid |-> FALSE, log |-> Append(v3.log, Diag("policy_mode", e.name))] ELSE v3
        v5 == IF /\ e.security_policy = SECURITY_POLICY_NONE
                 /\ e.security_mode = SECURITY_MODE_NONE
                 /\ is_some(e.anonymous) /\ ~unwrap(e.anonymous)
              THEN [valid |-> FALSE, log |-> Append(v4.log, Diag("anonymous", e.name))] ELSE v4
    IN v5

\* ServerEndpoint::is_valid: `valid` starts true, every check runs, each violated
\* check logs one diagnostic and clears `valid`; the value returned and the log.
ServerEndpoint_is_valid(e) ==
    LET v1 == [valid |-> ~UserPassMismatch(e),
               log |-> IF UserPassMismatch(e) THEN <<Diag("user_pass", e.name)>> ELSE <<>>]
        v2 == IF PolicyUnknown(e)
              THEN [valid |-> FALSE, log |-> Append(v1.log, Diag("security_policy", e.name))] ELSE v1
        v3 == IF ModeUnknown(e)
              THEN [valid |-> FALSE, log |-> Append(v2.log, Diag("security_mode", e.name))] ELSE v2
        v4 == IF PolicyModeMismatch(e)
              THEN [valid |-> FALSE, log |-> Append(v3.log, Diag("policy_mode", e.name))] ELSE v3
        v5 == IF AnonymousNotSet(e)
              THEN [valid |-> FALSE, log |-> Append(v4.log, Diag("anonymous", e.name))] ELSE v4
    IN v5

(***************************************************************************)
(* ServerConfig                                                            *)
(***************************************************************************)
\* The defaults of the crate's constants module.
DEFAULT_OPC_UA_SERVER_PORT == 1234
DEFAULT_HELLO_TIMEOUT_SECONDS == 120
DEFAULT_MAX_ARRAY_LENGTH == 1000
DEFAULT_MAX_STRING_LENGTH == 65536
DEFAULT_MAX_BYTE_STRING_LENGTH == 65536

\* struct TcpConfig { .. }
TcpConfig(hello_timeout, host, port) ==
    [hello_timeout |-> hello_timeout, host |-> host, port |-> port]

ServerConfig_default(endpoints) ==
    LET application_name == "OPCUA-Rust"
        hostname == "127.0.0.1"
        application_uri == "urn:" \o application_name
        product_uri == "urn:" \o application_name
    IN [application_name |-> application_name,
        application_uri |-> application_uri,
        product_uri |-> product_uri,
        discovery_service |-> TRUE,
        pki_dir |-> "pki",
        tcp_config |-> TcpConfig(DEFAULT_HELLO_TIMEOUT_SECONDS, hostname, DEFAULT_OPC_UA_SERVER_PORT),
        endpoints |-> endpoints,
        max_array_length |-> DEFAULT_MAX_ARRAY_LENGTH,
        max_string_length |-> DEFAULT_MAX_STRING_LENGTH,
        max_byte_string_length |-> DEFAULT_MAX_BYTE_STRING_LENGTH]

ServerConfig_default_anonymous ==
    ServerConfig_default(<<ServerEndpoint_default_anonymous>>)

ServerConfig_default_user_pass(user, pass) ==
    ServerConfig_default(<<ServerEndpoint_default_user_pass(user, pass)>>)

ServerConfig_default_sample ==
    ServerConfig_default(<<ServerEndpoint_default_sample>>)

\* for e in self.endpoints.iter() { if !e.is_valid() { valid = false; } }
\* from endpoint i on, with `valid` and the log so far in acc
RECURSIVE EndpointsLoop(_, _, _)
EndpointsLoop(endpoints, i, acc) ==
    IF i > Len(endpoints) THEN acc
    ELSE LET r == ServerEndpoint_is_valid(endpoints[i])
         IN EndpointsLoop(endpoints, i + 1,
                          [valid |-> IF ~r.valid THEN FALSE ELSE acc.valid,
                           log |-> acc.log \o r.log])

\* A plausible slip: the loop stops at the first invalid endpoint
\* (self.endpoints.iter().all(|e| e.is_valid())).
RECURSIVE EndpointsLoopAll(_, _, _)
EndpointsLoopAll(endpoints, i, acc) ==
    IF i > Len(endpoints) THEN acc
    ELSE LET r == ServerEndpoint_is_valid(endpoints[i])
         IN IF ~r.valid THEN [valid |-> FALSE, log |-> acc.log \o r.log]
            ELSE EndpointsLoopAll(endpoints, i + 1, acc)

\* A plausible slip: the loop assigns `valid = e.is_valid()`, so the last endpoint decides.
RECURSIVE EndpointsLoopLastWins(_, _, _)
EndpointsLoopLastWins(endpoints, i, acc) ==
    IF i > Len(endpoints) THEN acc
    ELSE LET r == ServerEndpoint_is_valid(endpoints[i])
         IN EndpointsLoopLastWins(endpoints, i + 1,
                                  [valid |-> r.valid, log |-> acc.log \o r.log])

\* The checks of ServerConfig::is_valid after the endpoints: the three limits.
LimitChecks(c, acc) ==
    LET v1 == IF c.max_array_length = 0
              THEN [valid |-> FALSE, log |-> Append(acc.log, Diag("max_array_length", ""))] ELSE acc
        v2 == IF c.max_string_length = 0
              THEN [valid |-> FALSE, log |-> Append(v1.log, Diag("max_string_length", ""))] ELSE v1
        v3 == IF c.max_byte_string_length = 0
              THEN [valid |-> FALSE, log |-> Append(v2.log, Diag("max_byte_string_length", ""))] ELSE v2
    IN v3

ServerConfig_is_valid_LastWins(c) ==
    LET v0 == IF c.endpoints = <<>>
              THEN [valid |-> FALSE, log |-> <<Diag("no_endpoints", "")>>]
              ELSE [valid |-> TRUE, log |-> <<>>]
    IN LimitChecks(c, EndpointsLoopLastWins(c.endpoints, 1, v0))

ServerConfig_is_valid_All(c) ==
    LET v0 == IF c.endpoints = <<>>
              THEN [valid |-> FALSE, log |-> <<Diag("no_endpoints", "")>>]
              ELSE [valid |-> TRUE, log |-> <<>>]
    IN LimitChecks(c, EndpointsLoopAll(c.endpoints, 1, v0))

\* ServerConfig::is_valid: the value returned and the diagnostics logged
ServerConfig_is_valid(c) ==
    LET v0 == IF c.endpoints = <<>>
              THEN [valid |-> FALSE, log |-> <<Diag("no_endpoints", "")>>]
              ELSE [valid |-> TRUE, log |-> <<>>]
    IN LimitChecks(c, EndpointsLoop(c.endpoints, 1, v0))

(***************************************************************************)
(* The YAML document serde_yaml::to_string writes and serde_yaml::from_str *)
(* reads.  A document is a tree of nodes: a scalar carries its text and    *)
(* whether it is written in quotes, a sequence its items, a mapping its    *)
(* key / value entries in the order written.                               *)
(***************************************************************************)
Node(t, text, quoted, items) == [t |-> t, text |-> text, quoted |-> quoted, items |-> items]
Scalar(text, quoted) == Node("scalar", text, quoted, <<>>)
SeqNode(items) == Node("seq", "", FALSE, items)
MapNode(entries) == Node("map", "", FALSE, entries)
Entry(key, val) == [key |-> key, val |-> val]
\* a text that is no YAML document
InvalidSyntax == Node("invalid", "", FALSE, <<>>)

\* The unsigned integers the configurations of the model use, and their decimal texts
U32Values ==
    {0, 1, DEFAULT_OPC_UA_SERVER_PORT, DEFAULT_HELLO_TIMEOUT_SECONDS, DEFAULT_MAX_ARRAY_LENGTH,
     DEFAULT_MAX_STRING_LENGTH, DEFAULT_MAX_BYTE_STRING_LENGTH}
IsIntText(text) == \E n \in U32Values : ToString(n) = text
ParseInt(text) == CHOOSE n \in U32Values : ToString(n) = text

\* The type a plain (unquoted) scalar resolves to when read; a quoted one is a string
Resolve(n) ==
    IF n.quoted THEN "str"
    ELSE IF n.text \in {"~", "null"} THEN "null"
    ELSE IF n.text \in {"true", "false"} THEN "bool"
    ELSE IF IsIntText(n.text) THEN "int"
    ELSE "str"

\* The emitter quotes a string that would not be read back as a string
NeedQuotes(s) == s = "" \/ s \in {"~", "null", "true", "false"} \/ IsIntText(s)

\* Serialize: one operator per type of field
ser_str(s) == Scalar(s, NeedQuotes(s))
ser_bool(b) == Scalar(IF b THEN "true" ELSE "false", FALSE)
ser_u32(n) == Scalar(ToString(n), FALSE)
ser_unit == Scalar("~", FALSE)
ser_opt_str(o) == IF is_none(o) THEN ser_unit ELSE ser_str(unwrap(o))
ser_opt_bool(o) == IF is_none(o) THEN ser_unit ELSE ser_bool(unwrap(o))

\* A plausible slip: the password is left out of the document (#[serde(skip_serializing)]).
ServerEndpoint_serialize_SkipsPass(e) ==
    MapNode(<<Entry("name", ser_str(e.name)),
              Entry("path", ser_str(e.path)),
              Entry("security_policy", ser_str(e.security_policy)),
              Entry("security_mode", ser_str(e.security_mode)),
              Entry("anonymous", ser_opt_bool(e.anonymous)),
              Entry("user", ser_opt_str(e.user))>>)

\* #[derive(Serialize)] struct ServerEndpoint: a mapping, the fields in declaration order
ServerEndpoint_serialize(e) ==
    MapNode(<<Entry("name", ser_str(e.name)),
              Entry("path", ser_str(e.path)),
              Entry("security_policy", ser_str(e.security_policy)),
              Entry("security_mode", ser_str(e.security_mode)),
              Entry("anonymous", ser_opt_bool(e.anonymous)),
              Entry("user", ser_opt_str(e.user)),
              Entry("pass", ser_opt_str(e.pass))>>)

\* #[derive(Serialize)] struct TcpConfig
TcpConfig_serialize(t) ==
    MapNode(<<Entry("hello_timeout", ser_u32(t.hello_timeout)),
              Entry("host", ser_str(t.host)),
              Entry("port", ser_u32(t.port))>>)

\* #[derive(Serialize)] struct ServerConfig
ServerConfig_serialize(c) ==
    MapNode(<<Entry("application_name", ser_str(c.application_name)),
              Entry("application_uri", ser_str(c.application_uri)),
              Entry("product_uri", ser_str(c.product_uri)),
              Entry("pki_dir", ser_str(c.pki_dir)),
              Entry("discovery_service", ser_bool(c.discovery_service)),
              Entry("tcp_config", TcpConfig_serialize(c.tcp_config)),
              Entry("endpoints",
                    SeqNode([i \in 1..Len(c.endpoints) |-> ServerEndpoint_serialize(c.endpoints[i])])),
              Entry("max_array_length", ser_u32(c.max_array_length)),
              Entry("max_string_length", ser_u32(c.max_string_length)),
              Entry("max_byte_string_length", ser_u32(c.max_byte_string_length))>>)

\* serde_yaml::to_string(&self).unwrap()
to_string(c) == ServerConfig_serialize(c)

\* Deserialize.  A result is Some(value) for Ok(value) and None for Err.
HasKey(m, key) == \E i \in 1..Len(m.items) : m.items[i].key = key
Get(m, key) == m.items[CHOOSE i \in 1..Len(m.items) : m.items[i].key = key].val

de_str(n) == IF n.t = "scalar" /\ Resolve(n) = "str" THEN Some(n.text) ELSE None
de_bool(n) == IF n.t = "scalar" /\ Resolve(n) = "bool" THEN Some(n.text = "true") ELSE None
de_u32(n) == IF n.t = "scalar" /\ Resolve(n) = "int" THEN Some(ParseInt(n.text)) ELSE None
IsNull(n) == n.t = "scalar" /\ Resolve(n) = "null"
de_opt_str(n) == IF IsNull(n) THEN Some(None) ELSE IF is_some(de_str(n)) THEN Some(de_str(n)) ELSE None
de_opt_bool(n) == IF IsNull(n) THEN Some(None) ELSE IF is_some(de_bool(n)) THEN Some(de_bool(n)) ELSE None

\* a field of a mapping: a missing key is an error, except for an Option field, which is then None
Required(m, key) == IF HasKey(m, key) THEN Get(m, key) ELSE InvalidSyntax
Optional(m, key) == IF HasKey(m, key) THEN Get(m, key) ELSE ser_unit

\* #[derive(Deserialize)] struct ServerEndpoint
ServerEndpoint_deserialize(n) ==
    IF n.t # "map" THEN None
    ELSE LET name == de_str(Required(n, "name"))
             path == de_str(Required(n, "path"))
             policy == de_str(Required(n, "security_policy"))
             mode == de_str(Required(n, "security_mode"))
             anonymous == de_opt_bool(Optional(n, "anonymous"))
             user == de_opt_str(Optional(n, "user"))
             pass == de_opt_str(Optional(n, "pass"))
         IN IF \/ is_none(name) \/ is_none(path) \/ is_none(policy) \/ is_none(mode)
               \/ is_none(anonymous) \/ is_none(user) \/ is_none(pass)
            THEN None
            ELSE Some(Endpoint(unwrap(name), unwrap(path), unwrap(policy), unwrap(mode),
                               unwrap(anonymous), unwrap(user), unwrap(pass)))

\* #[derive(Deserialize)] struct TcpConfig
TcpConfig_deserialize(n) ==
    IF n.t # "map" THEN None
    ELSE LET hello_timeout == de_u32(Required(n, "hello_timeout"))
             host == de_str(Required(n, "host"))
             port == de_u32(Required(n, "port"))
         IN IF is_none(hello_timeout) \/ is_none(host) \/ is_none(port) THEN None
            ELSE Some(TcpConfig(unwrap(hello_timeout), unwrap(host), unwrap(port)))

\* Vec<ServerEndpoint>
Endpoints_deserialize(n) ==
    IF n.t # "seq" THEN None
    ELSE IF \E i \in 1..Len(n.items) : is_none(ServerEndpoint_deserialize(n.items[i])) THEN None
    ELSE Some([i \in 1..Len(n.items) |-> unwrap(ServerEndpoint_deserialize(n.items[i]))])

\* #[derive(Deserialize)] struct ServerConfig
ServerConfig_deserialize(n) ==
    IF n.t # "map" THEN None
    ELSE LET application_name == de_str(Required(n, "application_name"))
             application_uri == de_str(Required(n, "application_uri"))
             product_uri == de_str(Required(n, "product_uri"))
             pki_dir == de_str(Required(n, "pki_dir"))
             discovery_service == de_bool(Required(n, "discovery_service"))
             tcp_config == TcpConfig_deserialize(Required(n, "tcp_config"))
             endpoints == Endpoints_deserialize(Required(n, "endpoints"))
             max_array_length == de_u32(Required(n, "max_array_length"))
             max_string_length == de_u32(Required(n, "max_string_length"))
             max_byte_string_length == de_u32(Required(n, "max_byte_string_length"))
         IN IF \/ is_none(application_name) \/ is_none(application_uri) \/ is_none(product_uri)
               \/ is_none(pki_dir) \/ is_none(discovery_service) \/ is_none(tcp_config)
               \/ is_none(endpoints) \/ is_none(max_array_length) \/ is_none(max_string_length)
               \/ is_none(max_byte_string_length)
            THEN None
            ELSE Some([application_name |-> unwrap(application_name),
                       application_uri |-> unwrap(application_uri),
                       product_uri |-> unwrap(product_uri),
                       discovery_service |-> unwrap(discovery_service),
                       pki_dir |-> unwrap(pki_dir),
                       tcp_config |-> unwrap(tcp_config),
                       endpoints |-> unwrap(endpoints),
                       max_array_length |-> unwrap(max_array_length),
                       max_string_length |-> unwrap(max_string_length),
                       max_byte_string_length |-> unwrap(max_byte_string_length)])

\* serde_yaml::from_str(&s)
from_str(doc) == ServerConfig_deserialize(doc)

(***************************************************************************)
(* The file at the path, and save / load.                                  *)
(***************************************************************************)
File(kind, doc) == [kind |-> kind, doc |-> doc]
FileAbsent == File("absent", InvalidSyntax)      \* no file at the path
FileNotUtf8 == File("not_utf8", InvalidSyntax)   \* a file whose bytes are no UTF-8 text
TextFile(doc) == File("text", doc)               \* a text file holding doc
EmptyText == Node("empty", "", FALSE, <<>>)      \* the empty text File::create leaves

\* What a write_all that fails may leave after File::create truncated the file:
\* nothing, a document cut inside a token, or one cut after a whole line.
PartialWrites(doc) ==
    {EmptyText, InvalidSyntax, MapNode(SubSeq(doc.items, 1, Len(doc.items) - 1))}

\* What the file system can answer to the calls save makes to write doc: File::create
\* fails, or it succeeds and write_all fails leaving `left`, or both succeed
SaveOutcomes(doc) ==
    {[io |-> "ok", left |-> doc], [io |-> "create_fails", left |-> doc]}
    \cup {[io |-> "write_fails", left |-> p] : p \in PartialWrites(doc)}

\* What the file system can answer to File::open on file f
OpenOutcomes(f) == IF f.kind = "absent" THEN {"open_fails"} ELSE {"ok", "open_fails"}

\* A plausible slip: save writes without validating.
ServerConfig_save_NoValidation(c, f, fs) ==
    LET s == to_string(c)
    IN IF fs.io = "create_fails" THEN [ok |-> FALSE, file |-> f, log |-> <<>>, io |-> fs.io]
       ELSE IF fs.io = "write_fails"
            THEN [ok |-> FALSE, file |-> TextFile(fs.left), log |-> <<>>, io |-> fs.io]
       ELSE [ok |-> TRUE, file |-> TextFile(s), log |-> <<>>, io |-> fs.io]

\* A plausible slip: save creates (truncates) the file before it validates.
ServerConfig_save_CreatesFirst(c, f, fs) ==
    LET v == ServerConfig_is_valid(c)
        s == to_string(c)
    IN IF fs.io = "create_fails" THEN [ok |-> FALSE, file |-> f, log |-> v.log, io |-> fs.io]
       ELSE IF ~v.valid
            THEN [ok |-> FALSE, file |-> TextFile(EmptyText), log |-> v.log, io |-> "none"]
       ELSE IF fs.io = "write_fails"
            THEN [ok |-> FALSE, file |-> TextFile(fs.left), log |-> v.log, io |-> fs.io]
       ELSE [ok |-> TRUE, file |-> TextFile(s), log |-> v.log, io |-> fs.io]

\* ServerConfig::save(&self, path) on file f, the file system answering fs: whether it
\* returns Ok(()), the file afterwards, what is_valid logged, and the file system
\* outcome met ("none" when save returns before File::create)
ServerConfig_save(c, f, fs) ==
    LET v == ServerConfig_is_valid(c)
        s == to_string(c)
    IN IF ~v.valid THEN [ok |-> FALSE, file |-> f, log |-> v.log, io |-> "none"]
       ELSE IF fs.io = "create_fails" THEN [ok |-> FALSE, file |-> f, log |-> v.log, io |-> fs.io]
       ELSE IF fs.io = "write_fails"
            THEN [ok |-> FALSE, file |-> TextFile(fs.left), log |-> v.log, io |-> fs.io]
       ELSE [ok |-> TRUE, file |-> TextFile(s), log |-> v.log, io |-> fs.io]

\* A plausible slip: load rejects a configuration that is not valid.
ServerConfig_load_Validates(f, io) ==
    IF io = "open_fails" THEN None
    ELSE IF f.kind = "not_utf8" THEN None
    ELSE IF is_none(from_str(f.doc)) THEN None
    ELSE IF ~ServerConfig_is_valid(unwrap(from_str(f.doc))).valid THEN None
    ELSE from_str(f.doc)

\* ServerConfig::load(path) on file f, File::open answering io: Some(config) for
\* Ok(config), None for Err(())
ServerConfig_load(f, io) ==
    IF io = "open_fails" THEN None
    ELSE IF f.kind = "not_utf8" THEN None
    ELSE from_str(f.doc)

\* What load returns for file f when the file system does not fail
Loaded(f) == ServerConfig_load(f, IF f.kind = "absent" THEN "open_fails" ELSE "ok")

(***************************************************************************)
(* Values the operations are exercised on.                                 *)
(***************************************************************************)
SeqsUpTo(S, n) == UNION {[1..k -> S] : k \in 0..n}

\* Strings tried as security_policy and security_mode: the legal values of both,
\* a value in another case, the empty string and a value of neither list
SecurityStrings ==
    {SECURITY_POLICY_NONE, SECURITY_POLICY_BASIC_128_RSA_15, SECURITY_POLICY_BASIC_256,
     SECURITY_POLICY_BASIC_256_SHA_256, SECURITY_MODE_SIGN, SECURITY_MODE_SIGN_AND_ENCRYPT,
     "none", "bogus"}
EndpointNames == {DEFAULT_ENDPOINT_NAME, "ep2"}
UserArgs == {"", "alice"}
PassArgs == {as_bytes(""), as_bytes("pw"), InvalidUtf8}

\* Every ServerEndpoint a struct literal can give over these strings
EndpointValues ==
    {Endpoint(n, DEFAULT_ENDPOINT_PATH, p, m, a, u, w) :
        n \in EndpointNames, p \in SecurityStrings, m \in SecurityStrings,
        a \in {None, Some(FALSE), Some(TRUE)},
        u \in {None, Some(""), Some("alice")}, w \in {None, Some(""), Some("pw")}}

\* Endpoints the configurations are built from: three valid ones, four invalid ones
\* that between them break every rule, two of them named like the valid default
SecureEndpoint ==
    Endpoint("secure", "/secure", SECURITY_POLICY_BASIC_256, SECURITY_MODE_SIGN_AND_ENCRYPT,
             None, None, None)
UserWithoutPass ==
    Endpoint("broken", "/b", SECURITY_POLICY_BASIC_256, SECURITY_MODE_NONE, None, Some("alice"), None)
BogusEndpoint ==
    Endpoint("bogus", "/x", "bogus", "bogus", Some(FALSE), None, Some("pw"))
ModeWithoutPolicy ==
    Endpoint(DEFAULT_ENDPOINT_NAME, "/", SECURITY_POLICY_NONE, SECURITY_MODE_SIGN, None, None, None)
ConfigEndpoints ==
    {ServerEndpoint_default_anonymous, ServerEndpoint_default_sample, SecureEndpoint,
     ServerEndpoint_default_user_pass("alice", as_bytes("pw")), UserWithoutPass, BogusEndpoint,
     ModeWithoutPolicy}

LimitValues == {0, 1, DEFAULT_MAX_ARRAY_LENGTH}

WithLimits(c, a, s, b) ==
    [c EXCEPT !.max_array_length = a, !.max_string_length = s, !.max_byte_string_length = b]

\* The ServerConfig struct literals the validation is exercised on
ConfigValues ==
    {WithLimits(ServerConfig_default(es), a, s, b) :
        es \in SeqsUpTo(ConfigEndpoints, MaxEndpoints),
        a \in LimitValues, s \in LimitValues, b \in LimitValues}

\* Configurations saved and loaded.  Their endpoints: the anonymous preset, a secure
\* endpoint whose optional anonymous is absent and whose strings are texts that read
\* as other YAML values when unquoted, and the (invalid) user / password preset.
TrickyEndpoint ==
    Endpoint("true", "0", SECURITY_POLICY_BASIC_256_SHA_256, SECURITY_MODE_SIGN, None, Some("~"), Some(""))
PersistEndpoints ==
    {ServerEndpoint_default_anonymous, TrickyEndpoint,
     ServerEndpoint_default_user_pass("alice", as_bytes("pw"))}

\* a configuration none of whose fields has the default value
CustomConfig(es) ==
    [application_name |-> "null",
     application_uri |-> "",
     product_uri |-> "urn:x",
     discovery_service |-> FALSE,
     pki_dir |-> "1",
     tcp_config |-> TcpConfig(0, "false", 1),
     endpoints |-> es,
     max_array_length |-> 1,
     max_string_length |-> 1,
     max_byte_string_length |-> 1]

PersistConfigs ==
    {WithLimits(ServerConfig_default(es), a, DEFAULT_MAX_STRING_LENGTH, DEFAULT_MAX_BYTE_STRING_LENGTH) :
        es \in SeqsUpTo(PersistEndpoints, MaxEndpoints), a \in {0, DEFAULT_MAX_ARRAY_LENGTH}}
    \cup {CustomConfig(<<e>>) : e \in PersistEndpoints}

\* A document written by hand: the keys in another order, an unknown key, and an
\* endpoint that leaves out the optional anonymous and pass
HandWrittenDoc ==
    MapNode(<<Entry("endpoints",
                    SeqNode(<<MapNode(<<Entry("name", Scalar("hand", FALSE)),
                                        Entry("path", Scalar("/", TRUE)),
                                        Entry("user", Scalar("alice", FALSE)),
                                        Entry("security_mode", Scalar("None", FALSE)),
                                        Entry("security_policy", Scalar("None", FALSE))>>)>>)),
              Entry("comment", Scalar("written by hand", FALSE)),
              Entry("application_name", Scalar("hand", FALSE)),
              Entry("application_uri", Scalar("urn:hand", FALSE)),
              Entry("product_uri", Scalar("urn:hand", FALSE)),
              Entry("pki_dir", Scalar("pki", FALSE)),
              Entry("discovery_service", Scalar("false", FALSE)),
              Entry("tcp_config", TcpConfig_serialize(TcpConfig(1, "localhost", 1234))),
              Entry("max_array_length", Scalar("1", FALSE)),
              Entry("max_string_length", Scalar("1", FALSE)),
              Entry("max_byte_string_length", Scalar("1", FALSE))>>)

\* Documents that fit the schema and hold a configuration that is not valid
InvalidConfigDocs ==
    {to_string(ServerConfig_default(<<>>)),
     to_string(WithLimits(ServerConfig_default_anonymous, 0, 1, 1)),
     HandWrittenDoc}

\* What the path may hold before the first save
InitialFiles ==
    {FileAbsent, FileNotUtf8, TextFile(InvalidSyntax), TextFile(to_string(ServerConfig_default_sample))}
    \cup {TextFile(d) : d \in InvalidConfigDocs}

(***************************************************************************)
(* The outcome of an operation: its name, whether it returned true / Ok,   *)
(* whether it panicked, the file system outcome (save, load) and the user  *)
(* and pass arguments (endpoint constructors).                             *)
(***************************************************************************)
Ret(op, ok, panicked, io, user, pass) ==
    [op |-> op, ok |-> ok, panicked |-> panicked, io |-> io, user |-> user, pass |-> pass]
Returned(op, ok) == Ret(op, ok, FALSE, "none", "", as_bytes(""))

(***************************************************************************)
(* Specification SpecEndpoint: the constructors and the validation of one  *)
(* ServerEndpoint.                                                         *)
(***************************************************************************)
InitEndpoint ==
    /\ ep \in EndpointValues
    /\ ret = Returned("literal", TRUE)
    /\ log = <<>>
    /\ cfg = ServerConfig_default(<<>>)
    /\ file = FileAbsent
    /\ expected = None
    /\ clean = TRUE
    /\ saved = FALSE

\* ServerEndpoint::new(name, path, anonymous, user, pass, policy, mode), called with
\* the name, path, policy and mode of the endpoint at hand
New ==
    \E anonymous \in BOOLEAN, user \in UserArgs, pass \in PassArgs :
        /\ IF ServerEndpoint_new_panics(user, pass)
           THEN /\ ret' = Ret("new", FALSE, TRUE, "none", user, pass)
                /\ ep' = ep
           ELSE /\ ret' = Ret("new", TRUE, FALSE, "none", user, pass)
                /\ ep' = ServerEndpoint_new(ep.name, ep.path, anonymous, user, pass,
                                            ep.security_policy, ep.security_mode)
        /\ log' = <<>>
        /\ UNCHANGED <<cfg, file, expected, clean, saved>>

EndpointDefaultAnonymous ==
    /\ ep' = ServerEndpoint_default_anonymous
    /\ ret' = Ret("default_anonymous", TRUE, FALSE, "none", "", as_bytes(""))
    /\ log' = <<>>
    /\ UNCHANGED <<cfg, file, expected, clean, saved>>

EndpointDefaultUserPass ==
    \E user \in UserArgs, pass \in PassArgs :
        /\ IF ServerEndpoint_new_panics(user, pass)
           THEN /\ ret' = Ret("default_user_pass", FALSE, TRUE, "none", user, pass)
                /\ ep' = ep
           ELSE /\ ret' = Ret("default_user_pass", TRUE, FALSE, "none", user, pass)
                /\ ep' = ServerEndpoint_default_user_pass(user, pass)
        /\ log' = <<>>
        /\ UNCHANGED <<cfg, file, expected, clean, saved>>

EndpointDefaultSample ==
    /\ ep' = ServerEndpoint_default_sample
    /\ ret' = Ret("default_sample", TRUE, FALSE, "none", "sample", as_bytes("sample1"))
    /\ log' = <<>>
    /\ UNCHANGED <<cfg, file, expected, clean, saved>>

EndpointIsValid ==
    /\ ret' = Returned("is_valid", ServerEndpoint_is_valid(ep).valid)
    /\ log' = ServerEndpoint_is_valid(ep).log
    /\ UNCHANGED <<ep, cfg, file, expected, clean, saved>>

NextEndpoint ==
    \/ New
    \/ EndpointDefaultAnonymous
    \/ EndpointDefaultUserPass
    \/ EndpointDefaultSample
    \/ EndpointIsValid

SpecEndpoint == InitEndpoint /\ [][NextEndpoint]_vars

(***************************************************************************)
(* Specification SpecValidate: the presets and the validation of one       *)
(* ServerConfig.                                                           *)
(***************************************************************************)
InitValidate ==
    /\ cfg \in ConfigValues
    /\ ret = Returned("literal", TRUE)
    /\ log = <<>>
    /\ ep = ServerEndpoint_default_anonymous
    /\ file = FileAbsent
    /\ expected = None
    /\ clean = TRUE
    /\ saved = FALSE

ConfigDefaultAnonymous ==
    /\ cfg' = ServerConfig_default_anonymous
    /\ ret' = Ret("default_anonymous", TRUE, FALSE, "none", "", as_bytes(""))
    /\ log' = <<>>
    /\ UNCHANGED <<ep, file, expected, clean, saved>>

ConfigDefaultUserPass ==
    \E user \in UserArgs, pass \in PassArgs :
        /\ IF ServerEndpoint_new_panics(user, pass)
           THEN /\ ret' = Ret("default_user_pass", FALSE, TRUE, "none", user, pass)
                /\ cfg' = cfg
           ELSE /\ ret' = Ret("default_user_pass", TRUE, FALSE, "none", user, pass)
                /\ cfg' = ServerConfig_default_user_pass(user, pass)
        /\ log' = <<>>
        /\ UNCHANGED <<ep, file, expected, clean, saved>>

ConfigDefaultSample ==
    /\ cfg' = ServerConfig_default_sample
    /\ ret' = Ret("default_sample", TRUE, FALSE, "none", "sample", as_bytes("sample1"))
    /\ log' = <<>>
    /\ UNCHANGED <<ep, file, expected, clean, saved>>

ConfigIsValid ==
    /\ ret' = Returned("is_valid", ServerConfig_is_valid(cfg).valid)
    /\ log' = ServerConfig_is_valid(cfg).log
    /\ UNCHANGED <<ep, cfg, file, expected, clean, saved>>

NextValidate ==
    \/ ConfigDefaultAnonymous
    \/ ConfigDefaultUserPass
    \/ ConfigDefaultSample
    \/ ConfigIsValid

SpecValidate == InitValidate /\ [][NextValidate]_vars

(***************************************************************************)
(* Specification Spec: one process holding a configuration, saving it to   *)
(* and loading it from one path.                                           *)
(***************************************************************************)
Init ==
    /\ cfg = ServerConfig_default_anonymous
    /\ file \in InitialFiles
    /\ ret = Returned("init", TRUE)
    /\ log = <<>>
    /\ ep = ServerEndpoint_default_anonymous
    /\ expected = Loaded(file)
    /\ clean = TRUE
    /\ saved = FALSE

\* The caller replaces the configuration it holds by another one, whole
Replace ==
    \E c \in PersistConfigs :
        /\ cfg' = c
        /\ ret' = Returned("replace", TRUE)
        /\ log' = <<>>
        /\ UNCHANGED <<ep, file, expected, clean, saved>>

\* cfg.save(path).  The history: `expected` follows the valid configurations saved
\* for as long as no File::create or write_all has failed, and is dropped then.
Save ==
    \E fs \in SaveOutcomes(to_string(cfg)) :
        LET r == ServerConfig_save(cfg, file, fs)
            valid == ServerConfig_is_valid(cfg).valid
            still == clean /\ (valid => fs.io = "ok")
        IN /\ file' = r.file
           /\ ret' = Ret("save", r.ok, FALSE, r.io, "", as_bytes(""))
           /\ log' = r.log
           /\ clean' = still
           /\ expected' = IF ~still THEN None ELSE IF valid THEN Some(cfg) ELSE expected
           /\ saved' = (saved \/ r.ok)
           /\ UNCHANGED <<ep, cfg>>

\* ServerConfig::load(path); the caller keeps the configuration returned
Load ==
    \E io \in OpenOutcomes(file) :
        LET r == ServerConfig_load(file, io)
        IN /\ ret' = Ret("load", is_some(r), FALSE, io, "", as_bytes(""))
           /\ cfg' = IF is_some(r) THEN unwrap(r) ELSE cfg
           /\ log' = <<>>
           /\ UNCHANGED <<ep, file, expected, clean, saved>>

Next ==
    \/ Replace
    \/ Save
    \/ Load

Spec == Init /\ [][Next]_vars

(***************************************************************************)
(* The rules of the specification, stated on the values themselves.        *)
(***************************************************************************)
PolicyNames == {"None", "Basic128Rsa15", "Basic256", "Basic256Sha256"}
ModeNames == {"None", "Sign", "SignAndEncrypt"}
EndpointRules == {"user_pass", "security_policy", "security_mode", "policy_mode", "anonymous"}
ConfigRules == {"no_endpoints", "max_array_length", "max_string_length", "max_byte_string_length"}

\* endpoint e breaks the rule
Breaks(e, rule) ==
    CASE rule = "user_pass" -> (e.user = None) # (e.pass = None)
      [] rule = "security_policy" -> e.security_policy \notin PolicyNames
      [] rule = "security_mode" -> e.security_mode \notin ModeNames
      [] rule = "policy_mode" -> (e.security_policy = "None") # (e.security_mode = "None")
      [] rule = "anonymous" -> /\ e.security_policy = "None"
                               /\ e.security_mode = "None"
                               /\ e.anonymous # Some(TRUE)

\* configuration c breaks the rule
ConfigBreaks(c, rule) ==
    CASE rule = "no_endpoints" -> Len(c.endpoints) = 0
      [] rule = "max_array_length" -> c.max_array_length = 0
      [] rule = "max_string_length" -> c.max_string_length = 0
      [] rule = "max_byte_string_length" -> c.max_byte_string_length = 0

EndpointInvariants(e) == \A rule \in EndpointRules : ~Breaks(e, rule)

\* how often diagnostic d is in log l
Count(l, d) == Cardinality({i \in 1..Len(l) : l[i] = d})

(***************************************************************************)
(* Claims on ServerEndpoint, checked under SpecEndpoint.                   *)
(***************************************************************************)
\* C2: ServerEndpoint::is_valid returns true if and only if the five endpoint
\* invariants hold: user and pass both set or both unset, a known security policy, a
\* known security mode, policy None exactly when mode None, and anonymous explicitly
\* true when both are None.
C2_EndpointValidIffInvariants ==
    ret.op = "is_valid" => (ret.ok <=> EndpointInvariants(ep))

\* an endpoint without security whose anonymous flag is absent, and which breaks no
\* other rule, was found invalid
C2_Witness ==
    /\ ret.op = "is_valid"
    /\ ~ret.ok
    /\ ep.security_policy = "None" /\ ep.security_mode = "None"
    /\ ep.anonymous = None /\ ep.user = None /\ ep.pass = None

\* C10: ServerEndpoint::new with a UTF-8 pass builds an endpoint with user and pass
\* both unset when the user argument is empty (the pass is discarded) and both set
\* when it is not (an empty pass gives a set, empty password), and anonymous is always
\* set; the presets, built by new, keep the pairing too.
C10_NewPairsUserAndPass ==
    (ret.op \in {"new", "default_anonymous", "default_user_pass", "default_sample"} /\ ret.pass.utf8) =>
        /\ ~ret.panicked
        /\ ret.user = "" => (ep.user = None /\ ep.pass = None)
        /\ ret.user # "" => (ep.user = Some(ret.user) /\ ep.pass = Some(ret.pass.text))
        /\ ~Breaks(ep, "user_pass")
        /\ ep.anonymous # None

\* new was called with an empty user and a non-empty pass, and the pass was discarded
C10_Witness ==
    /\ ret.op = "new" /\ ret.user = "" /\ ret.pass = as_bytes("pw")
    /\ ep.user = None /\ ep.pass = None

(***************************************************************************)
(* Claims on ServerConfig validation, checked under SpecValidate.          *)
(***************************************************************************)
\* C1: ServerConfig::is_valid returns true if and only if the endpoint list is not
\* empty, every endpoint is valid by ServerEndpoint::is_valid, and the three limits
\* are all non-zero.
C1_ConfigValidIff ==
    ret.op = "is_valid" =>
        (ret.ok <=> /\ Len(cfg.endpoints) > 0
                    /\ \A i \in 1..Len(cfg.endpoints) : ServerEndpoint_is_valid(cfg.endpoints[i]).valid
                    /\ cfg.max_array_length # 0
                    /\ cfg.max_string_length # 0
                    /\ cfg.max_byte_string_length # 0)

\* a configuration whose only fault is its first endpoint, a valid one after it, was
\* found invalid
C1_Witness ==
    /\ ret.op = "is_valid" /\ ~ret.ok
    /\ Len(cfg.endpoints) = 2
    /\ ~ServerEndpoint_is_valid(cfg.endpoints[1]).valid
    /\ ServerEndpoint_is_valid(cfg.endpoints[2]).valid
    /\ cfg.max_array_length # 0 /\ cfg.max_string_length # 0 /\ cfg.max_byte_string_length # 0

\* C6: ServerConfig::default_anonymous returns a configuration with exactly one
\* endpoint, of policy None, mode None, anonymous true, user and pass unset, and
\* is_valid is true of it.
C6_DefaultAnonymous ==
    ret.op = "default_anonymous" =>
        /\ Len(cfg.endpoints) = 1
        /\ cfg.endpoints[1].security_policy = "None"
        /\ cfg.endpoints[1].security_mode = "None"
        /\ cfg.endpoints[1].anonymous = Some(TRUE)
        /\ cfg.endpoints[1].user = None
        /\ cfg.endpoints[1].pass = None
        /\ ServerConfig_is_valid(cfg).valid

C6_Witness ==
    ret.op = "default_anonymous" /\ Len(cfg.endpoints) = 1 /\ cfg.max_array_length # 0

\* C7: every preset (default_anonymous, default_user_pass with a non-empty user,
\* default_sample) gives an endpoint that ServerEndpoint::is_valid accepts, in a
\* configuration that ServerConfig::is_valid accepts.
C7_PresetsAreValid ==
    (/\ ret.op \in {"default_anonymous", "default_user_pass", "default_sample"}
     /\ ~ret.panicked
     /\ ret.user # "" \/ ret.op # "default_user_pass") =>
        /\ ServerEndpoint_is_valid(cfg.endpoints[1]).valid
        /\ ServerConfig_is_valid(cfg).valid

\* C8: one call of ServerConfig::is_valid logs exactly one diagnostic per violated
\* rule: one for an empty endpoint list, one for each zero limit, and for every
\* endpoint of the list, those after an invalid one too, one per endpoint invariant
\* it breaks, carrying its name; nothing else is logged.
C8_OneDiagnosticPerViolation ==
    ret.op = "is_valid" =>
        /\ \A rule \in ConfigRules :
               Count(log, Diag(rule, "")) = IF ConfigBreaks(cfg, rule) THEN 1 ELSE 0
        /\ \A rule \in EndpointRules : \A i \in 1..Len(cfg.endpoints) :
               Count(log, Diag(rule, cfg.endpoints[i].name)) =
                   Cardinality({j \in 1..Len(cfg.endpoints) :
                                   /\ cfg.endpoints[j].name = cfg.endpoints[i].name
                                   /\ Breaks(cfg.endpoints[j], rule)})
        /\ \A k \in 1..Len(log) :
               \/ log[k].rule \in ConfigRules /\ log[k].name = ""
               \/ /\ log[k].rule \in EndpointRules
                  /\ \E i \in 1..Len(cfg.endpoints) : cfg.endpoints[i].name = log[k].name

\* two invalid endpoints and a zero limit: the second endpoint's faults and the limit
\* are in the log after the first endpoint's
C8_Witness ==
    /\ ret.op = "is_valid"
    /\ Len(cfg.endpoints) = 2
    /\ cfg.endpoints[1] = BogusEndpoint
    /\ cfg.endpoints[2] = UserWithoutPass
    /\ cfg.max_string_length = 0
    /\ Len(log) = 6
    /\ log[4] = Diag("user_pass", "broken")
    /\ log[6] = Diag("max_string_length", "")

(***************************************************************************)
(* Claims on save and load, checked under Spec.                            *)
(***************************************************************************)
\* C3: save of a configuration that is not valid reports failure and leaves the file
\* at the path as it was: not created, not truncated, not modified.
C3_InvalidSaveWritesNothing ==
    [][(ret'.op = "save" /\ ~ServerConfig_is_valid(cfg).valid) =>
           (~ret'.ok /\ file' = file)]_vars

\* an invalid configuration was saved onto a file holding a loadable document, and
\* the document is still there
C3_Witness ==
    /\ ret.op = "save" /\ ~ret.ok
    /\ ~ServerConfig_is_valid(cfg).valid
    /\ file.kind = "text" /\ is_some(from_str(file.doc))

\* C4: round trip: when a valid configuration is saved and the file system does not
\* fail, save succeeds and a following load succeeds and returns a configuration
\* equal to the one saved in every field.
C4_RoundTrip ==
    (ret.op = "save" /\ ServerConfig_is_valid(cfg).valid /\ ret.io = "ok") =>
        /\ ret.ok
        /\ ServerConfig_load(file, "ok") = Some(cfg)

\* a configuration of two endpoints, one with absent optional fields and strings that
\* need quoting, was saved
C4_Witness ==
    /\ ret.op = "save" /\ ret.ok
    /\ cfg.endpoints = <<TrickyEndpoint, ServerEndpoint_default_anonymous>>

\* C5: load does not validate: it succeeds exactly when the file can be opened, read
\* as text and parsed into the schema, so a file holding a document that fits the
\* schema and describes an invalid configuration is loaded, and is_valid is false of
\* what load returns.
C5_LoadDoesNotValidate ==
    ret.op = "load" =>
        /\ ret.ok <=> (ret.io = "ok" /\ file.kind = "text" /\ is_some(from_str(file.doc)))
        /\ (ret.io = "ok" /\ file \in {TextFile(d) : d \in InvalidConfigDocs}) =>
               (ret.ok /\ ~ServerConfig_is_valid(cfg).valid)

\* the hand-written document, whose endpoint has a user and no pass, was loaded
C5_Witness ==
    /\ ret.op = "load" /\ ret.ok
    /\ file = TextFile(HandWrittenDoc)
    /\ Len(cfg.endpoints) = 1
    /\ cfg.endpoints[1].user = Some("alice") /\ cfg.endpoints[1].pass = None
    /\ ~ServerConfig_is_valid(cfg).valid

\* C9: as long as no file creation or write has failed, load returns the
\* configuration of the latest save of a valid configuration, or what it returned for
\* the initial file when there was none; a save of an invalid configuration does not
\* change that; and after a successful save every configuration load returns is valid.
C9_FileIsSourceOfTruth ==
    clean =>
        /\ Loaded(file) = expected
        /\ (saved /\ is_some(Loaded(file))) => ServerConfig_is_valid(unwrap(Loaded(file))).valid

\* after a successful save, an invalid configuration was saved and failed, and load
\* still returns the configuration saved before
C9_Witness ==
    /\ clean /\ saved
    /\ ret.op = "save" /\ ~ret.ok
    /\ ~ServerConfig_is_valid(cfg).valid
    /\ is_some(Loaded(file)) /\ Loaded(file) # Some(cfg)

====
